---- MODULE Spec2Model ----
(***************************************************************************)
(* Model of run.py: the batch that embeds lyrics and cover art into MP3    *)
(* and FLAC files through ffmpeg.  File names are sequences of one         *)
(* character strings, so that splitext, startswith, endswith, lower and    *)
(* the '.temp.' test are computed the way the code computes them.          *)
(***************************************************************************)
EXTENDS Integers, Sequences, FiniteSets, TLC

\* ------------------------------------------------------------------------
\* Bounds of the model
\* ------------------------------------------------------------------------
MaxAudio == 2
MaxLrc == 1
MaxList == 3

\* ------------------------------------------------------------------------
\* Python string and path primitives used by run.py
\* ------------------------------------------------------------------------
None == "None"
NoPath == << >>

Range(s) == {s[i] : i \in 1..Len(s)}

Reverse(s) == [i \in 1..Len(s) |-> s[Len(s) + 1 - i]]

UPPER == <<"A", "B", "C", "D", "E", "F", "G", "H", "I", "J", "K", "L", "M",
           "N", "O", "P", "Q", "R", "S", "T", "U", "V", "W", "X", "Y", "Z">>
LOWER == <<"a", "b", "c", "d", "e", "f", "g", "h", "i", "j", "k", "l", "m",
           "n", "o", "p", "q", "r", "s", "t", "u", "v", "w", "x", "y", "z">>
LowerChar(c) ==
    IF \E i \in 1..26 : UPPER[i] = c
    THEN LOWER[CHOOSE i \in 1..26 : UPPER[i] = c]
    ELSE c

lower(s) == [i \in 1..Len(s) |-> LowerChar(s[i])]

startswith(s, p) == Len(p) <= Len(s) /\ SubSeq(s, 1, Len(p)) = p

endswith(s, x) == Len(x) <= Len(s) /\ SubSeq(s, Len(s) - Len(x) + 1, Len(s)) = x

contains(s, x) == \E i \in 1..(Len(s) + 1) :
    i + Len(x) - 1 <= Len(s) /\ SubSeq(s, i, i + Len(x) - 1) = x

\* os.path.splitext: split at the last dot, unless only dots precede it
DotIdx(s) == {i \in 1..Len(s) : s[i] = "."}
LastDot(s) == CHOOSE i \in DotIdx(s) : \A j \in DotIdx(s) : j <= i
HasExt(s) == DotIdx(s) # {} /\ \E j \in 1..(LastDot(s) - 1) : s[j] # "."
splitext0(s) == IF HasExt(s) THEN SubSeq(s, 1, LastDot(s) - 1) ELSE s
splitext1(s) == IF HasExt(s) THEN SubSeq(s, LastDot(s), Len(s)) ELSE << >>

\* extension literals of the code
EXT_MP3 == <<".", "m", "p", "3">>
EXT_FLAC == <<".", "f", "l", "a", "c">>
EXT_LRC == <<".", "l", "r", "c">>
TEMP_MARK == <<".", "t", "e", "m", "p", ".">>
TEMP_SUFFIX == <<".", "t", "e", "m", "p">>
image_extensions == {<<".", "j", "p", "g">>, <<".", "j", "p", "e", "g">>,
                     <<".", "p", "n", "g">>, <<".", "b", "m", "p">>,
                     <<".", "g", "i", "f">>}

\* ------------------------------------------------------------------------
\* The file names the directories are drawn from
\* ------------------------------------------------------------------------
A_MP3 == <<"a", ".", "m", "p", "3">>
AB_FLAC == <<"a", "b", ".", "F", "L", "A", "C">>
A_TEMP_MP3 == <<"a", ".", "t", "e", "m", "p", ".", "m", "p", "3">>
A_LRC == <<"a", ".", "l", "r", "c">>
AB_LRC == <<"a", "b", ".", "l", "r", "c">>
A_PNG == <<"a", ".", "p", "n", "g">>
TEMP_LRC == <<"t", "e", "m", "p", "_", "7", ".", "l", "r", "c">>

B_LRC == <<"b", ".", "l", "r", "c">>
A_UP_LRC == <<"A", ".", "L", "R", "C">>
AB_JPG == <<"a", "b", ".", "J", "P", "G">>
B_PNG == <<"b", ".", "p", "n", "g">>
A_TXT == <<"a", ".", "t", "x", "t">>

AudioUniverse == {A_MP3, AB_FLAC, A_TEMP_MP3}
LrcUniverse == {A_LRC, AB_LRC}
CoverUniverse == {A_PNG}
\* the order in which os.listdir returns the names (or its reverse)
ListingOrder == <<A_MP3, AB_LRC, A_TEMP_MP3, A_LRC, AB_FLAC, A_PNG,
                  B_LRC, A_TXT, AB_JPG, A_UP_LRC, B_PNG>>

\* ------------------------------------------------------------------------
\* State
\* ------------------------------------------------------------------------
VARIABLES
    \* arguments of main
    songDirIsDir,     \* os.path.isdir(song_dir)
    lyrics_dir_arg,   \* --lyrics-dir as given: "None", "SONG", "LYR", "MISSING"
    lyrics_dir,       \* main's local lyrics_dir (reassigned to the song directory)
    cover_dir,        \* "None", "COV" (an existing directory), "MISSING"
    keep_lyrics, use_gpu, skip_lyrics,
    \* the file system
    songDir,          \* song directory: file name -> content
    lyrDir,           \* separate lyrics directory: file name -> content
    covDir,           \* cover directory: set of file names
    tempDirExists,    \* song_dir/temp_lyrics_dir exists
    tempDir,          \* files staged in song_dir/temp_lyrics_dir
    \* locals of main
    pc, audio_files, lrc_files, has_cover, processed_count, idx,
    full_lrc_path, lyrics_text, cover_file, success,
    \* what happened so far
    songDir0, lyrDir0, \* the directories as they were when the run began
    calls,            \* one record per return of embed_lyrics_mp3 / embed_lyrics_flac
    visited,          \* audio files the loop has taken up, in order
    deletedLrc,       \* <<lyric path, audio file>>: lyric files removed by main
    delFailed,        \* audio files whose lyric file main could not remove
    probed,           \* ffmpeg -version has been run
    toolAtStart,      \* "unknown", "present", "absent": what that probe found
    listed,           \* os.listdir(song_dir) has been called
    reported,         \* the processed/total line has been printed
    abort,            \* why main returned early, "none" otherwise
    \* a single call of one of the helper functions, outside a run of main
    frame             \* the function, its arguments, and what it returned

cfgVars == <<songDirIsDir, lyrics_dir_arg, cover_dir, keep_lyrics, skip_lyrics,
             covDir, songDir0, lyrDir0>>
fsVars == <<songDir, lyrDir, tempDirExists, tempDir>>
scanVars == <<lyrics_dir, use_gpu, audio_files, lrc_files, has_cover>>
fileVars == <<full_lrc_path, lyrics_text, cover_file, success>>
histVars == <<calls, visited, deletedLrc, delFailed, probed, toolAtStart, listed,
              reported, abort>>
mainVars == <<cfgVars, fsVars, scanVars, fileVars, histVars, pc, processed_count, idx>>
vars == <<mainVars, frame>>

song_dir == "SONG"

\* no helper function is being called on its own
NoFrame == [fn |-> "none"]

\* ------------------------------------------------------------------------
\* File contents: <<kind, file name, lyric text, cover name>>
\* ------------------------------------------------------------------------
Orig(n) == <<"orig", n, "", NoPath>>
LrcText(n) == IF n = A_LRC THEN "la" ELSE "lab"
LrcFile(n, kind) ==
    CASE kind = "text"  -> <<"lrc", n, LrcText(n), NoPath>>
      [] kind = "empty" -> <<"lrc", n, "", NoPath>>
      [] OTHER          -> <<"lrc_unreadable", n, "", NoPath>>
Scratch(text) == <<"scratch", TEMP_LRC, text, NoPath>>
Muxed(n, text, cov) == <<"muxed", n, text, cov>>
Partial(n) == <<"partial", n, "", NoPath>>

Put(dir, n, c) == [x \in (DOMAIN dir) \cup {n} |-> IF x = n THEN c ELSE dir[x]]
Del(dir, n) == [x \in (DOMAIN dir) \ {n} |-> dir[x]]
EmptyDir == [x \in {} |-> Orig(x)]

\* os.path.exists / os.path.isdir on the paths the code builds
Exists(path) ==
    /\ path # NoPath
    /\ CASE path[1] = "SONG" -> path[2] \in DOMAIN songDir
         [] path[1] = "LYR"  -> path[2] \in DOMAIN lyrDir
         [] path[1] = "COV"  -> path[2] \in covDir
         [] OTHER -> FALSE
isdir(d) == d \in {"SONG", "LYR", "COV"}
DirNames(d) ==
    CASE d = "SONG" -> DOMAIN songDir
      [] d = "LYR"  -> DOMAIN lyrDir
      [] OTHER      -> covDir

\* os.listdir: the names present, in the file system's order or its reverse
listdir(names, rev) ==
    SelectSeq(IF rev THEN Reverse(ListingOrder) ELSE ListingOrder,
              LAMBDA n : n \in names)

\* ------------------------------------------------------------------------
\* Matchers, text loader, capability probe
\* ------------------------------------------------------------------------
\* the loop without its `return` at the first hit: the last match wins
FirstMatch_LastMatch(base_name, names) ==
    LET hits == {i \in 1..Len(names) : startswith(names[i], base_name)}
    IN IF hits = {} THEN NoPath
       ELSE names[CHOOSE i \in hits : \A j \in hits : j <= i]

RECURSIVE FirstMatch(_, _)
\* first element of the sequence names that starts with base_name, else NoPath
FirstMatch(base_name, names) ==
    IF names = << >> THEN NoPath
    ELSE IF startswith(Head(names), base_name) THEN Head(names)
    ELSE FirstMatch(base_name, Tail(names))

find_lyrics(song_name, lyrics_files) ==
    FirstMatch(splitext0(song_name), lyrics_files)

find_lyrics_in_dir(song_name, dir, rev) ==
    IF ~isdir(dir) THEN NoPath
    ELSE LET lrcs == SelectSeq(listdir(DirNames(dir), rev),
                               LAMBDA f : endswith(lower(f), EXT_LRC))
             m == FirstMatch(splitext0(song_name), lrcs)
         IN IF m = NoPath THEN NoPath ELSE <<dir, m>>

\* line 50 with the exact comparison only
CoverMatches_ExactOnly(base_name, cover) == splitext0(cover) = base_name

\* line 50
CoverMatches(base_name, cover) ==
    LET file_base == splitext0(cover)
    IN \/ file_base = base_name
       \/ startswith(base_name, file_base)
       \/ startswith(file_base, base_name)

RECURSIVE FirstCover(_, _)
FirstCover(base_name, names) ==
    IF names = << >> THEN NoPath
    ELSE IF CoverMatches(base_name, Head(names)) THEN Head(names)
    ELSE FirstCover(base_name, Tail(names))

find_cover_in_dir(song_name, dir, rev) ==
    IF dir = "None" \/ ~isdir(dir) THEN NoPath
    ELSE LET covers == SelectSeq(listdir(DirNames(dir), rev),
                 LAMBDA f : \E e \in image_extensions : endswith(lower(f), e))
             m == FirstCover(splitext0(song_name), covers)
         IN IF m = NoPath THEN NoPath ELSE <<dir, m>>

\* read_lrc_file: the text of the file, None when neither the given nor the
\* detected encoding can read it
FileAt(path) == IF path[1] = "LYR" THEN lyrDir[path[2]] ELSE songDir[path[2]]
read_lrc_file(path) ==
    IF FileAt(path)[1] = "lrc" THEN FileAt(path)[3] ELSE None

\* Python truth value of lyrics_text / of a path
Falsy(text) == text = None \/ text = ""

\* check_gpu_support: what `ffmpeg -encoders` did is the probe record
NVENC == <<"n", "v", "e", "n", "c">>
GpuProbes == [raises : BOOLEAN, returncode : {0, 1},
              stdout : {NVENC, <<"h", "2", "6", "4", "_", "N", "V", "E", "N", "C">>,
                        <<"a", "a", "c">>}]
check_gpu_support(probe) ==
    IF probe.raises THEN FALSE ELSE contains(lower(probe.stdout), NVENC)
\* `use_gpu and check_gpu_support()`: the probe runs only when use_gpu is set;
\* the values the expression can take over all the probes
AccelIf(use) == IF use THEN {check_gpu_support(p) : p \in GpuProbes} ELSE {FALSE}

\* ------------------------------------------------------------------------
\* ffmpeg command lines.  Paths are written symbolically: AUDIO, TEMP_LRC,
\* COVER and OUTPUT stand for audio_file, temp_lrc_path, cover_file and
\* output_file; LYRICS_TAG stands for f'lyrics={lyrics_text}'.
\* ------------------------------------------------------------------------
Mp3Cmd(skip, cover_ok, accel) ==
    <<"ffmpeg", "-y", "-i", "AUDIO">>
    \o (IF ~skip THEN <<"-i", "TEMP_LRC">> ELSE << >>)
    \o (IF cover_ok THEN <<"-i", "COVER">> ELSE << >>)
    \o (IF ~skip /\ cover_ok THEN
            IF accel
            THEN <<"-map", "0:a", "-map", "1", "-map", "2", "-c:a", "copy",
                   "-c:s", "copy", "-disposition:1", "lyrics",
                   "-disposition:2", "attached_pic">>
            ELSE <<"-map", "0:a", "-map", "1", "-map", "2", "-c", "copy",
                   "-disposition:1", "lyrics", "-disposition:2", "attached_pic">>
        ELSE IF ~skip THEN
            IF accel
            THEN <<"-map", "0:a", "-map", "1", "-c:a", "copy", "-c:s", "copy",
                   "-disposition:1", "lyrics">>
            ELSE <<"-map", "0", "-map", "1", "-c", "copy",
                   "-disposition:1", "lyrics">>
        ELSE IF cover_ok THEN
            IF accel
            THEN <<"-map", "0:a", "-map", "1", "-c:a", "copy", "-c:v", "copy",
                   "-disposition:1", "attached_pic">>
            ELSE <<"-map", "0", "-map", "1", "-c", "copy",
                   "-disposition:1", "attached_pic">>
        ELSE << >>)
    \o <<"-loglevel", "quiet", "OUTPUT">>

\* the plan of embed_lyrics_flac with the scratch lyric file as an input
FlacCmd_LyricsInput(skip, cover_ok) ==
    <<"ffmpeg", "-y", "-i", "AUDIO">>
    \o (IF ~skip THEN <<"-i", "TEMP_LRC">> ELSE << >>)
    \o (IF cover_ok THEN <<"-i", "COVER">> ELSE << >>)
    \o <<"-c", "copy", "-loglevel", "quiet", "OUTPUT">>

\* lines 243-273
FlacCmd(skip, cover_ok) ==
    <<"ffmpeg", "-y", "-i", "AUDIO">>
    \o (IF cover_ok THEN <<"-i", "COVER">> ELSE << >>)
    \o <<"-c", "copy">>
    \o (IF ~skip THEN <<"-metadata", "LYRICS_TAG">> ELSE << >>)
    \o (IF cover_ok THEN <<"-metadata:s:v", "title=\"Album cover\"",
                           "-metadata:s:v", "comment=\"Cover (front)\"">>
        ELSE << >>)
    \o <<"-loglevel", "quiet", "OUTPUT">>

\* lines 243-273 as embed_lyrics_flac runs them: use_gpu is a parameter of
\* the function that the plan never reads
FlacPlan(skip, cover_ok, use) == FlacCmd(skip, cover_ok)

\* lines 236-240: output_file of embed_lyrics_flac, as directory, staging
\* subdirectory and file name
TEMP_DIR == "temp_lyrics_dir"
FlacOutputFile(audio) == <<song_dir, TEMP_DIR, audio>>

\* what the command asks ffmpeg to put into the output
CmdHasLyrics(cmd) == "TEMP_LRC" \in Range(cmd) \/ "LYRICS_TAG" \in Range(cmd)
CmdHasCover(cmd) == "COVER" \in Range(cmd)

\* ------------------------------------------------------------------------
\* How ffmpeg reads a command line: its inputs, the output streams its -map
\* options select, and the codec and disposition options of each
\* ------------------------------------------------------------------------
RECURSIVE ArgsOf(_, _)
\* the values given to an option, in the order of the command line
ArgsOf(cmd, flag) ==
    IF Len(cmd) < 2 THEN << >>
    ELSE IF Head(cmd) = flag THEN <<cmd[2]>> \o ArgsOf(SubSeq(cmd, 3, Len(cmd)), flag)
    ELSE ArgsOf(Tail(cmd), flag)

Inputs(cmd) == ArgsOf(cmd, "-i")

\* the streams of an input file: the audio file's own, one subtitle stream
\* for the lyric file, one video stream for the picture
StreamsOf(input, audio_streams) ==
    CASE input = "AUDIO"    -> audio_streams
      [] input = "TEMP_LRC" -> <<"s">>
      [] OTHER              -> <<"v">>

\* '-map N' selects every stream of input N, '-map N:a' its audio streams
MapInput(m) == CASE m \in {"0", "0:a"} -> 0 [] m = "1" -> 1 [] OTHER -> 2
MapOnly(m) == IF m = "0:a" THEN {"a"} ELSE {"a", "s", "v"}
Selected(cmd, m, audio_streams) ==
    LET types == StreamsOf(Inputs(cmd)[MapInput(m) + 1], audio_streams)
        picked == SelectSeq(types, LAMBDA t : t \in MapOnly(m))
    IN [i \in 1..Len(picked) |-> [input |-> MapInput(m), type |-> picked[i]]]

RECURSIVE Concat(_)
Concat(ss) == IF ss = << >> THEN << >> ELSE Head(ss) \o Concat(Tail(ss))

\* the output streams, in order: output stream k is OutputStreams(..)[k + 1]
OutputStreams(cmd, audio_streams) ==
    LET maps == ArgsOf(cmd, "-map")
    IN Concat([i \in 1..Len(maps) |-> Selected(cmd, maps[i], audio_streams)])

DispositionFlag(k) ==
    CASE k = 0 -> "-disposition:0" [] k = 1 -> "-disposition:1"
      [] k = 2 -> "-disposition:2" [] OTHER -> "-disposition:3"
\* the disposition the command gives output stream k, "" when it gives none
Disposition(cmd, k) ==
    LET d == ArgsOf(cmd, DispositionFlag(k))
    IN IF d = << >> THEN "" ELSE d[Len(d)]

CodecFlag(type) ==
    CASE type = "a" -> "-c:a" [] type = "s" -> "-c:s" [] OTHER -> "-c:v"
\* the stream type is copied: '-c copy' or '-c:<type> copy'
Copied(cmd, type) ==
    \/ "copy" \in Range(ArgsOf(cmd, "-c"))
    \/ "copy" \in Range(ArgsOf(cmd, CodecFlag(type)))

\* ------------------------------------------------------------------------
\* Initial states: the arguments and the directories of one run
\* ------------------------------------------------------------------------
LrcKinds == {"text", "empty", "unreadable"}

Init ==
    /\ songDirIsDir \in BOOLEAN
    /\ lyrics_dir_arg \in {"None", "SONG", "LYR", "MISSING"}
    /\ lyrics_dir = lyrics_dir_arg
    /\ cover_dir \in {"None", "COV", "MISSING"}
    /\ keep_lyrics \in BOOLEAN
    /\ use_gpu \in BOOLEAN
    /\ skip_lyrics \in BOOLEAN
    /\ \E audio \in SUBSET AudioUniverse, lrc \in SUBSET LrcUniverse :
         /\ Cardinality(audio) <= MaxAudio
         /\ Cardinality(lrc) <= MaxLrc
         /\ ~songDirIsDir => audio = {} /\ (lyrics_dir_arg # "LYR" => lrc = {})
         /\ \E kind \in [lrc -> LrcKinds] :
              LET lrcs == [n \in lrc |-> LrcFile(n, kind[n])]
                  auds == [n \in audio |-> Orig(n)]
              IN IF lyrics_dir_arg = "LYR"
                 THEN songDir = auds /\ lyrDir = lrcs
                 ELSE /\ songDir = [n \in audio \cup lrc |->
                                      IF n \in audio THEN auds[n] ELSE lrcs[n]]
                      /\ lyrDir = EmptyDir
    /\ covDir \in (IF cover_dir = "COV" THEN SUBSET CoverUniverse ELSE {{}})
    /\ tempDirExists = FALSE
    /\ tempDir = EmptyDir
    /\ pc \in {"cli", "main"}
    /\ audio_files = << >>
    /\ lrc_files = << >>
    /\ has_cover = FALSE
    /\ processed_count = 0
    /\ idx = 0
    /\ full_lrc_path = NoPath
    /\ lyrics_text = None
    /\ cover_file = NoPath
    /\ success = FALSE
    /\ songDir0 = songDir
    /\ lyrDir0 = lyrDir
    /\ calls = << >>
    /\ visited = << >>
    /\ deletedLrc = {}
    /\ delFailed = {}
    /\ probed = FALSE
    /\ toolAtStart = "unknown"
    /\ listed = FALSE
    /\ reported = FALSE
    /\ abort = "none"
    /\ frame = NoFrame

\* ------------------------------------------------------------------------
\* Decisions of main
\* ------------------------------------------------------------------------
\* the check of line 313 left out
NothingSelected_Never(skip, cdir) == FALSE

\* line 313 (and 468): nothing selected to embed
NothingSelected(skip, cdir) == skip /\ cdir = "None"

\* the FileNotFoundError of the probe ignored
ProbeFails_Never(onPath) == FALSE

\* lines 318-323: `ffmpeg -version` raises FileNotFoundError
ProbeFails(onPath) == ~onPath

\* the scan without the '.temp.' exclusion
ScanAudio_KeepStaged(files) ==
    SelectSeq(files, LAMBDA f :
        endswith(lower(f), EXT_MP3) \/ endswith(lower(f), EXT_FLAC))

\* line 337: the audio files of the listing, staged outputs left out
ScanAudio(files) ==
    SelectSeq(files, LAMBDA f :
        /\ endswith(lower(f), EXT_MP3) \/ endswith(lower(f), EXT_FLAC)
        /\ ~contains(f, TEMP_MARK))

ScanLrc(files) == SelectSeq(files, LAMBDA f : endswith(lower(f), EXT_LRC))

\* line 413 without the test of lyrics_text
NothingToEmbed_NoLyricsCheck(skip, text, cover) == skip /\ cover = NoPath

\* line 413
NothingToEmbed(skip, text, cover) == (skip \/ Falsy(text)) /\ cover = NoPath

\* line 435 without the test of keep_lyrics
DeleteLyricsAfter_IgnoreKeep(skip, keep, ldir, path) ==
    ~skip /\ ldir = song_dir /\ path # NoPath

\* line 435
DeleteLyricsAfter(skip, keep, ldir, path) ==
    ~skip /\ ~keep /\ ldir = song_dir /\ path # NoPath

\* the counter raised whatever the call returned
CountAfter_Always(count, ok) == count + 1

\* lines 428-429
CountAfter(count, ok) == IF ok THEN count + 1 ELSE count

\* `break` in place of `continue`
LoopContinue_Break(i) == Len(audio_files) + 1

\* `continue` and the end of the loop body: on to the next audio file
LoopContinue(i) == i + 1

Finish(why) ==
    /\ pc' = "done"
    /\ abort' = why

\* ------------------------------------------------------------------------
\* __main__ (lines 446-473) and the head of main (lines 306-371)
\* ------------------------------------------------------------------------
Cli ==
    /\ pc = "cli"
    /\ IF NothingSelected(skip_lyrics, cover_dir)
       THEN Finish("cli_nothing_to_embed")
       ELSE pc' = "main" /\ abort' = abort
    /\ UNCHANGED <<cfgVars, frame, fsVars, scanVars, fileVars, processed_count, idx,
                   calls, visited, deletedLrc, delFailed, probed, toolAtStart,
                   listed, reported>>

MainStart ==
    /\ pc = "main"
    /\ UNCHANGED <<cfgVars, frame, fsVars, fileVars, calls, visited, deletedLrc,
                   delFailed, reported>>
    /\ IF ~songDirIsDir THEN
          /\ Finish("bad_dir")
          /\ UNCHANGED <<scanVars, probed, toolAtStart, listed, processed_count, idx>>
       ELSE IF NothingSelected(skip_lyrics, cover_dir) THEN
          /\ Finish("nothing_to_embed")
          /\ UNCHANGED <<scanVars, probed, toolAtStart, listed, processed_count, idx>>
       ELSE
          \E onPath \in BOOLEAN, accel \in AccelIf(use_gpu), rev \in BOOLEAN,
             rev2 \in BOOLEAN :
            /\ probed' = TRUE
            /\ toolAtStart' = IF onPath THEN "present" ELSE "absent"
            /\ IF ProbeFails(onPath) THEN
                  /\ Finish("no_ffmpeg")
                  /\ UNCHANGED <<scanVars, listed, processed_count, idx>>
               ELSE
                  LET files == listdir(DOMAIN songDir, rev)
                      own == lyrics_dir = "None" \/ lyrics_dir = song_dir
                      audios == ScanAudio(files)
                  IN /\ use_gpu' = accel
                     /\ listed' = TRUE
                     /\ audio_files' = audios
                     /\ lrc_files' =
                          IF skip_lyrics THEN << >>
                          ELSE IF own THEN ScanLrc(files)
                          ELSE IF isdir(lyrics_dir)
                               THEN ScanLrc(listdir(DirNames(lyrics_dir), rev2))
                          ELSE ScanLrc(files)
                     /\ lyrics_dir' =
                          IF skip_lyrics THEN lyrics_dir
                          ELSE IF own \/ ~isdir(lyrics_dir) THEN song_dir
                          ELSE lyrics_dir
                     /\ has_cover' = (cover_dir # "None" /\ isdir(cover_dir))
                     /\ processed_count' = 0
                     /\ IF audios = << >>
                        THEN Finish("no_audio") /\ idx' = idx
                        ELSE pc' = "loop" /\ idx' = 1 /\ abort' = abort

\* ------------------------------------------------------------------------
\* The loop of main (lines 374-425): resolve one audio file, skip or dispatch
\* ------------------------------------------------------------------------
LoopStep ==
    /\ pc = "loop"
    /\ idx <= Len(audio_files)
    /\ \E rev \in BOOLEAN, rev2 \in BOOLEAN :
         LET audio == audio_files[idx]
             named == find_lyrics(audio, lrc_files)
             found == IF skip_lyrics THEN NoPath
                      ELSE IF lyrics_dir # song_dir
                           THEN find_lyrics_in_dir(audio, lyrics_dir, rev)
                      ELSE IF named # NoPath THEN <<song_dir, named>>
                      ELSE NoPath
             readable == ~skip_lyrics /\ found # NoPath /\ Exists(found)
             text == IF readable THEN read_lrc_file(found) ELSE None
             \* lines 396-402: no usable lyrics and no cover directory
             noLyrics == /\ ~skip_lyrics /\ ~has_cover
                         /\ (readable => Falsy(text))
             cover == IF has_cover /\ ~noLyrics
                      THEN find_cover_in_dir(audio, cover_dir, rev2)
                      ELSE NoPath
             \* lines 408-410
             noCover == has_cover /\ cover = NoPath /\ skip_lyrics
         IN /\ visited' = Append(visited, audio)
            /\ full_lrc_path' = found
            /\ lyrics_text' = text
            /\ cover_file' = cover
            /\ success' = FALSE
            /\ IF noLyrics \/ noCover \/ NothingToEmbed(skip_lyrics, text, cover)
               THEN pc' = "loop" /\ idx' = LoopContinue(idx)
               ELSE /\ idx' = idx
                    /\ pc' = IF endswith(lower(audio), EXT_MP3) THEN "embed_mp3"
                             ELSE IF endswith(lower(audio), EXT_FLAC) THEN "embed_flac"
                             ELSE "returned"
    /\ UNCHANGED <<cfgVars, frame, fsVars, scanVars, processed_count, calls, deletedLrc,
                   delFailed, probed, toolAtStart, listed, reported, abort>>

\* ------------------------------------------------------------------------
\* embed_lyrics_mp3 (lines 99-220) and embed_lyrics_flac (lines 222-304)
\* ------------------------------------------------------------------------
\* what subprocess.run(cmd) did: FileNotFoundError, another exception, or an
\* exit code, with or without an output file written
ToolOutcomes == {"missing", "raises", "exit1", "exit1_out", "exit0_noout", "exit0"}
ExitCode(tool) == IF tool \in {"exit0", "exit0_noout"} THEN 0 ELSE 1
\* the replace step is reached only after ffmpeg exited with code 0
ReplaceOutcomes(tool, outcomes) == IF ExitCode(tool) = 0 THEN outcomes ELSE {"ok"}

\* the replace step entered whatever the exit code, whenever an output exists
ReplaceAllowed_IgnoreExit(code, out_exists) == out_exists

\* lines 195-202 / 279-286: the original is replaced only after exit code 0
\* with the output file in place
ReplaceAllowed(code, out_exists) == code = 0 /\ out_exists

\* lines 113-114: output_file of embed_lyrics_mp3, next to the audio file
Mp3OutputFile(audio) == splitext0(audio) \o TEMP_SUFFIX \o splitext1(audio)

\* the cleanup `if not skip_lyrics and os.path.exists(temp_lrc_path): os.remove`
RemoveScratch(dir) ==
    IF ~skip_lyrics /\ TEMP_LRC \in DOMAIN dir THEN Del(dir, TEMP_LRC) ELSE dir

\* the scratch file written without the test of skip_lyrics
WriteScratch_Always(dir) ==
    Put(dir, TEMP_LRC, Scratch(IF lyrics_text = None THEN "" ELSE lyrics_text))

\* lines 108-110 / 231-233: open(temp_lrc_path, 'w') and write
WriteScratch(dir) ==
    IF skip_lyrics THEN dir
    ELSE Put(dir, TEMP_LRC, Scratch(IF lyrics_text = None THEN "" ELSE lyrics_text))

\* ffmpeg's output for a command: the lyrics and the cover the command names
Staged(audio, cmd) ==
    Muxed(audio,
          IF CmdHasLyrics(cmd) THEN lyrics_text ELSE None,
          IF CmdHasCover(cmd) THEN cover_file[2] ELSE NoPath)

\* no file content: the value of `staged` when ffmpeg left no usable output
NoFile == << >>

\* toolOK: ffmpeg was run, exited with code 0 and its output file exists;
\* staged: what the output file then held
Call(audio, fmt, cmd, toolOK, staged, ok) ==
    [audio |-> audio, fmt |-> fmt, skip |-> skip_lyrics, text |-> lyrics_text,
     cover |-> cover_file, cmd |-> cmd, toolOK |-> toolOK, staged |-> staged,
     ok |-> ok]

Return(rec) ==
    /\ calls' = Append(calls, rec)
    /\ success' = rec.ok
    /\ pc' = "returned"
    /\ abort' = abort

\* an exception leaves the embed call: main has no handler, the run ends
Uncaught ==
    /\ Finish("uncaught")
    /\ UNCHANGED <<calls, success>>

\* what the try body did: the exception it raised ("none" when it returned),
\* the value it returned, the song directory and the command at that point,
\* and whether ffmpeg had exited with code 0 and left its output
Body(exc, ok, dir, cmd, toolOK) ==
    [exc |-> exc, ok |-> ok, dir |-> dir, cmd |-> cmd, toolOK |-> toolOK]

\* the except clauses of embed_lyrics_mp3 without `except Exception`
Mp3Handler_NoGeneric(exc) ==
    IF exc = "FileNotFoundError" THEN "not_found" ELSE "uncaught"

\* lines 213-220: the except clause that takes the exception
Mp3Handler(exc) ==
    IF exc = "FileNotFoundError" THEN "not_found" ELSE "generic"

\* embed_lyrics_flac without its `except Exception`
FlacHandler_NoExcept(exc) == "uncaught"

\* lines 298-300
FlacHandler(exc) == "generic"

EmbedLyricsMp3 ==
    /\ pc = "embed_mp3"
    /\ \E tool \in ToolOutcomes, accel \in AccelIf(use_gpu) :
       \E rep \in ReplaceOutcomes(tool, {"ok", "remove_fails", "rename_fails"}) :
         LET audio == audio_files[idx]
             written == WriteScratch(songDir)
             output_file == Mp3OutputFile(audio)
             cover_ok == cover_file # NoPath /\ Exists(cover_file)
             cmd == Mp3Cmd(skip_lyrics, cover_ok, accel)
             ran == CASE tool = "exit0" -> Put(written, output_file, Staged(audio, cmd))
                      [] tool = "exit1_out" -> Put(written, output_file, Partial(audio))
                      [] OTHER -> written
             ranOK == ExitCode(tool) = 0 /\ output_file \in DOMAIN ran
             body ==
                 IF skip_lyrics /\ cover_file = NoPath THEN
                     \* lines 103-105
                     Body("none", FALSE, songDir, << >>, FALSE)
                 ELSE IF ~skip_lyrics /\ lyrics_text = None THEN
                     \* line 110: f.write(None)
                     Body("TypeError", FALSE, written, << >>, FALSE)
                 ELSE IF tool = "missing" THEN
                     Body("FileNotFoundError", FALSE, written, cmd, FALSE)
                 ELSE IF tool = "raises" THEN
                     Body("OSError", FALSE, written, cmd, FALSE)
                 ELSE IF ~ReplaceAllowed(ExitCode(tool), output_file \in DOMAIN ran) THEN
                     \* lines 195-202
                     Body("none", FALSE, ran, cmd, ranOK)
                 ELSE IF rep = "remove_fails" THEN
                     \* line 205 raises
                     Body("OSError", FALSE, ran, cmd, ranOK)
                 ELSE IF rep = "rename_fails" THEN
                     \* line 206 raises, after line 205
                     Body("OSError", FALSE, Del(ran, audio), cmd, ranOK)
                 ELSE
                     \* lines 205-212
                     Body("none", TRUE,
                          RemoveScratch(Put(Del(ran, output_file), audio,
                                            ran[output_file])),
                          cmd, ranOK)
             rec == Call(audio, "mp3", body.cmd, body.toolOK,
                         IF body.toolOK THEN ran[output_file] ELSE NoFile, body.ok)
         IN IF body.exc = "none" THEN
               songDir' = body.dir /\ Return(rec)
            ELSE IF Mp3Handler(body.exc) = "not_found" THEN
               \* lines 213-215
               songDir' = body.dir /\ Return(rec)
            ELSE IF Mp3Handler(body.exc) = "generic" THEN
               \* lines 216-220
               songDir' = RemoveScratch(body.dir) /\ Return(rec)
            ELSE
               songDir' = body.dir /\ Uncaught
    /\ UNCHANGED <<cfgVars, frame, lyrDir, tempDirExists, tempDir, scanVars,
                   full_lrc_path, lyrics_text, cover_file, processed_count, idx,
                   visited, deletedLrc, delFailed, probed, toolAtStart, listed,
                   reported>>

EmbedLyricsFlac ==
    /\ pc = "embed_flac"
    /\ \E tool \in ToolOutcomes :
       \E move \in ReplaceOutcomes(tool, {"ok", "raises", "partial"}),
          rmtreeOK \in (IF tool = "exit0" THEN BOOLEAN ELSE {TRUE}) :
         LET audio == audio_files[idx]
             written == WriteScratch(songDir)
             cover_ok == cover_file # NoPath /\ Exists(cover_file)
             cmd == FlacCmd(skip_lyrics, cover_ok)
             \* output_file is temp_lyrics_dir/<basename of audio_file>
             ran == CASE tool = "exit0" -> Put(tempDir, audio, Staged(audio, cmd))
                      [] tool = "exit1_out" -> Put(tempDir, audio, Partial(audio))
                      [] OTHER -> tempDir
             ranOK == ExitCode(tool) = 0 /\ audio \in DOMAIN ran
             early == skip_lyrics /\ cover_file = NoPath
             typeError == ~skip_lyrics /\ lyrics_text = None
             body ==
                 IF early THEN
                     \* lines 226-228
                     Body("none", FALSE, songDir, << >>, FALSE)
                 ELSE IF typeError THEN
                     \* line 233: f.write(None)
                     Body("TypeError", FALSE, written, << >>, FALSE)
                 ELSE IF tool = "missing" THEN
                     Body("FileNotFoundError", FALSE, written, cmd, FALSE)
                 ELSE IF tool = "raises" THEN
                     Body("OSError", FALSE, written, cmd, FALSE)
                 ELSE IF ~ReplaceAllowed(ExitCode(tool), audio \in DOMAIN ran) THEN
                     \* lines 279-286
                     Body("none", FALSE, written, cmd, ranOK)
                 ELSE IF move = "raises" THEN
                     \* line 289 raises and leaves both files as they were
                     Body("OSError", FALSE, written, cmd, ranOK)
                 ELSE IF move = "partial" THEN
                     \* line 289: shutil.move copies and the copy raises midway
                     Body("OSError", FALSE, Put(written, audio, Partial(audio)),
                          cmd, ranOK)
                 ELSE
                     \* lines 289-297
                     Body("none", TRUE, Put(written, audio, ran[audio]), cmd, ranOK)
             rec == Call(audio, "flac", body.cmd, body.toolOK,
                         IF body.toolOK THEN ran[audio] ELSE NoFile, body.ok)
         IN \* lines 301-304: the finally clause runs on every way out
            /\ songDir' = RemoveScratch(body.dir)
            \* lines 236-237 and 293
            /\ tempDirExists' = IF early \/ typeError THEN tempDirExists
                                ELSE IF body.ok THEN ~rmtreeOK ELSE TRUE
            /\ tempDir' = IF early \/ typeError THEN tempDir
                          ELSE IF body.ok
                               THEN (IF rmtreeOK THEN EmptyDir ELSE Del(ran, audio))
                          ELSE ran
            /\ IF body.exc = "none" \/ FlacHandler(body.exc) = "generic"
               THEN Return(rec)
               ELSE Uncaught
    /\ UNCHANGED <<cfgVars, frame, lyrDir, scanVars, full_lrc_path, lyrics_text,
                   cover_file, processed_count, idx, visited, deletedLrc,
                   delFailed, probed, toolAtStart, listed, reported>>

\* ------------------------------------------------------------------------
\* After the embed call (lines 427-442), and the final report (line 444)
\* ------------------------------------------------------------------------
AfterEmbed ==
    /\ pc = "returned"
    /\ processed_count' = CountAfter(processed_count, success)
    /\ IF success /\ DeleteLyricsAfter(skip_lyrics, keep_lyrics, lyrics_dir, full_lrc_path)
       THEN \E removeOK \in BOOLEAN :
              IF removeOK /\ Exists(full_lrc_path)
              THEN /\ songDir' = IF full_lrc_path[1] = "SONG"
                                 THEN Del(songDir, full_lrc_path[2]) ELSE songDir
                   /\ lyrDir' = IF full_lrc_path[1] = "LYR"
                                THEN Del(lyrDir, full_lrc_path[2]) ELSE lyrDir
                   /\ deletedLrc' = deletedLrc \cup {<<full_lrc_path, audio_files[idx]>>}
                   /\ delFailed' = delFailed
              ELSE /\ UNCHANGED <<songDir, lyrDir, deletedLrc>>
                   /\ delFailed' = delFailed \cup {audio_files[idx]}
       ELSE UNCHANGED <<songDir, lyrDir, deletedLrc, delFailed>>
    /\ idx' = LoopContinue(idx)
    /\ pc' = "loop"
    /\ UNCHANGED <<cfgVars, frame, tempDirExists, tempDir, scanVars, fileVars, calls,
                   visited, probed, toolAtStart, listed, reported, abort>>

Report ==
    /\ pc = "loop"
    /\ idx > Len(audio_files)
    /\ reported' = TRUE
    /\ pc' = "done"
    /\ UNCHANGED <<cfgVars, frame, fsVars, scanVars, fileVars, processed_count, idx, calls,
                   visited, deletedLrc, delFailed, probed, toolAtStart, listed, abort>>

Next ==
    \/ Cli
    \/ MainStart
    \/ LoopStep
    \/ EmbedLyricsMp3
    \/ EmbedLyricsFlac
    \/ AfterEmbed
    \/ Report

Spec == Init /\ [][Next]_vars

\* ------------------------------------------------------------------------
\* The helper functions called on their own: one call per behaviour, its
\* arguments and directory contents drawn from the sets below
\* ------------------------------------------------------------------------
UnitSongs == {A_MP3, AB_FLAC}
UnitLrcNames == {A_LRC, AB_LRC, B_LRC, A_UP_LRC}
UnitLyrDirNames == {A_LRC, AB_LRC, A_UP_LRC, A_TXT}
UnitCoverNames == {A_PNG, AB_JPG, B_PNG, A_TXT}

\* the streams an audio file holds before the run: its audio stream, and a
\* picture when it already carries a cover
AudioStreams == {<<"a">>, <<"a", "v">>}

SeqsUpTo(S, n) == UNION {[1..k -> S] : k \in 0..n}

\* a call about to be made: env is what the environment supplied during the
\* call (a directory listing), ret the value returned
Frame(fn, args) ==
    [fn |-> fn, args |-> args, done |-> FALSE, env |-> << >>, ret |-> << >>]

\* main is not running
MainIdle ==
    /\ songDirIsDir = TRUE
    /\ lyrics_dir_arg = "None"
    /\ lyrics_dir = "None"
    /\ cover_dir = "None"
    /\ keep_lyrics = FALSE
    /\ use_gpu = FALSE
    /\ skip_lyrics = FALSE
    /\ songDir = EmptyDir
    /\ tempDirExists = FALSE
    /\ tempDir = EmptyDir
    /\ pc = "unit"
    /\ audio_files = << >>
    /\ lrc_files = << >>
    /\ has_cover = FALSE
    /\ processed_count = 0
    /\ idx = 0
    /\ full_lrc_path = NoPath
    /\ lyrics_text = None
    /\ cover_file = NoPath
    /\ success = FALSE
    /\ songDir0 = EmptyDir
    /\ lyrDir0 = EmptyDir
    /\ calls = << >>
    /\ visited = << >>
    /\ deletedLrc = {}
    /\ delFailed = {}
    /\ probed = FALSE
    /\ toolAtStart = "unknown"
    /\ listed = FALSE
    /\ reported = FALSE
    /\ abort = "none"

UnitInit ==
    /\ MainIdle
    /\ \/ /\ frame \in {Frame("find_lyrics", [song_name |-> s, lyrics_files |-> l]) :
                          s \in UnitSongs, l \in SeqsUpTo(UnitLrcNames, MaxList)}
          /\ lyrDir = EmptyDir
          /\ covDir = {}
       \/ /\ frame \in {Frame("find_lyrics_in_dir", [song_name |-> s, lyrics_dir |-> d]) :
                          s \in UnitSongs, d \in {"LYR", "MISSING"}}
          /\ \E names \in SUBSET UnitLyrDirNames :
               lyrDir = [n \in names |-> LrcFile(n, "text")]
          /\ covDir = {}
       \/ /\ frame \in {Frame("find_cover_in_dir", [song_name |-> s, cover_dir |-> d]) :
                          s \in UnitSongs, d \in {"None", "COV", "MISSING"}}
          /\ lyrDir = EmptyDir
          /\ covDir \in SUBSET UnitCoverNames
       \/ /\ frame \in {Frame("check_gpu_support", p) : p \in GpuProbes}
          /\ lyrDir = EmptyDir
          /\ covDir = {}
       \/ /\ frame \in {Frame("embed_lyrics_mp3", a) : a \in
                 {x \in [audio : {A_MP3}, audio_streams : AudioStreams,
                         skip_lyrics : BOOLEAN, cover_ok : BOOLEAN,
                         use_gpu : BOOLEAN] : ~(x.skip_lyrics /\ ~x.cover_ok)}}
          /\ lyrDir = EmptyDir
          /\ covDir = {}
       \/ /\ frame \in {Frame("embed_lyrics_flac", a) : a \in
                 {x \in [audio : {AB_FLAC}, audio_streams : AudioStreams,
                         skip_lyrics : BOOLEAN, cover_ok : BOOLEAN,
                         use_gpu : BOOLEAN] : ~(x.skip_lyrics /\ ~x.cover_ok)}}
          /\ lyrDir = EmptyDir
          /\ covDir = {}

Returns(env, ret) ==
    /\ ~frame.done
    /\ frame' = [frame EXCEPT !.done = TRUE, !.env = env, !.ret = ret]
    /\ UNCHANGED mainVars

CallFindLyrics ==
    /\ frame.fn = "find_lyrics"
    /\ Returns(<< >>, find_lyrics(frame.args.song_name, frame.args.lyrics_files))

CallFindLyricsInDir ==
    /\ frame.fn = "find_lyrics_in_dir"
    /\ \E rev \in BOOLEAN :
         LET dir == frame.args.lyrics_dir
         IN Returns(IF isdir(dir) THEN listdir(DirNames(dir), rev) ELSE << >>,
                    find_lyrics_in_dir(frame.args.song_name, dir, rev))

CallFindCoverInDir ==
    /\ frame.fn = "find_cover_in_dir"
    /\ \E rev \in BOOLEAN :
         LET dir == frame.args.cover_dir
         IN Returns(IF isdir(dir) THEN listdir(DirNames(dir), rev) ELSE << >>,
                    find_cover_in_dir(frame.args.song_name, dir, rev))

CallCheckGpuSupport ==
    /\ frame.fn = "check_gpu_support"
    /\ Returns(<< >>, check_gpu_support(frame.args))

\* lines 112-188: the command embed_lyrics_mp3 builds and its output file
PlanMp3 ==
    /\ frame.fn = "embed_lyrics_mp3"
    /\ \E accel \in AccelIf(frame.args.use_gpu) :
         Returns(accel,
                 [cmd |-> Mp3Cmd(frame.args.skip_lyrics, frame.args.cover_ok, accel),
                  output_file |-> <<song_dir, Mp3OutputFile(frame.args.audio)>>])

\* lines 235-273: the command embed_lyrics_flac builds and its output file
PlanFlac ==
    /\ frame.fn = "embed_lyrics_flac"
    /\ Returns(<< >>,
               [cmd |-> FlacPlan(frame.args.skip_lyrics, frame.args.cover_ok,
                                 frame.args.use_gpu),
                output_file |-> FlacOutputFile(frame.args.audio)])

UnitNext ==
    \/ CallFindLyrics
    \/ CallFindLyricsInDir
    \/ CallFindCoverInDir
    \/ CallCheckGpuSupport
    \/ PlanMp3
    \/ PlanFlac

UnitSpec == UnitInit /\ [][UnitNext]_vars

TypeOK ==
    /\ pc \in {"cli", "main", "loop", "embed_mp3", "embed_flac", "returned", "done"}
    /\ processed_count \in 0..Len(audio_files)
    /\ success \in BOOLEAN

\* ------------------------------------------------------------------------
\* Properties
\* ------------------------------------------------------------------------
LastCall == calls[Len(calls)]
OkCalls == {i \in 1..Len(calls) : calls[i].ok}
CalledAudio == {calls[i].audio : i \in 1..Len(calls)}
Embedding == pc \in {"embed_mp3", "embed_flac"}

\* C1: whenever embed_lyrics_mp3 / embed_lyrics_flac has returned, the scratch
\* lyric file temp_<pid>.lrc does not exist; nor does it exist when the next
\* audio file is taken up or when the batch has ended.
C1_ScratchRemoved ==
    pc \in {"returned", "loop", "done"} => TEMP_LRC \notin DOMAIN songDir

\* C2: whenever the embed call has returned failure, the original audio file
\* still exists at its path with its original content.
C2_OriginalIntact ==
    (pc = "returned" /\ ~success) =>
        /\ audio_files[idx] \in DOMAIN songDir
        /\ songDir[audio_files[idx]] = songDir0[audio_files[idx]]

\* C3: with skip-lyrics false and a cover directory, an audio file without
\* loadable lyrics but with a cover match is embedded cover-only: the command
\* names the cover and no lyrics, and when ffmpeg exits zero with its output
\* the file is replaced and the call succeeds.
C3_CoverOnly ==
    (pc = "returned" /\ ~skip_lyrics /\ has_cover /\ lyrics_text = None
       /\ cover_file # NoPath) =>
        /\ CmdHasCover(LastCall.cmd)
        /\ ~CmdHasLyrics(LastCall.cmd)
        /\ LastCall.toolOK =>
             /\ success
             /\ songDir[audio_files[idx]] = Muxed(audio_files[idx], None, cover_file[2])

\* C4: a file with neither usable lyric text (or skip-lyrics set) nor a cover
\* match is never passed to embed_lyrics_mp3 / embed_lyrics_flac, and every
\* file that was not passed to them is unchanged.
C4_NoCommitWithoutContent ==
    /\ \A i \in 1..Len(calls) :
         ~((calls[i].skip \/ calls[i].text \in {None, ""}) /\ calls[i].cover = NoPath)
    /\ Embedding =>
         ~((skip_lyrics \/ lyrics_text \in {None, ""}) /\ cover_file = NoPath)
    /\ \A f \in Range(audio_files) :
         (f \notin CalledAudio /\ ~(Embedding /\ audio_files[idx] = f)) =>
             f \in DOMAIN songDir /\ songDir[f] = songDir0[f]
C4_Witness ==
    /\ pc = "loop" /\ idx = 2 /\ Len(visited) = 1 /\ calls = << >>
    /\ ~skip_lyrics /\ has_cover /\ full_lrc_path # NoPath
    /\ lyrics_text \in {None, ""} /\ cover_file = NoPath

\* lyric files that were there when the run began and are gone now
LrcMissing ==
    {<<"SONG", n>> : n \in {m \in DOMAIN songDir0 :
                               songDir0[m][1] # "orig" /\ m \notin DOMAIN songDir}}
    \cup {<<"LYR", n>> : n \in (DOMAIN lyrDir0) \ (DOMAIN lyrDir)}
TextAt(path) == IF path[1] = "LYR" THEN lyrDir0[path[2]][3] ELSE songDir0[path[2]][3]
\* the lyric file d[1] went after a successful call for d[2] that embedded its text
DeletedAfterEmbed(d) ==
    \E i \in OkCalls :
        /\ calls[i].audio = d[2]
        /\ CmdHasLyrics(calls[i].cmd)
        /\ calls[i].text = TextAt(d[1])
DeletionsJustified ==
    /\ \A p \in LrcMissing : \E d \in deletedLrc : d[1] = p
    /\ \A d \in deletedLrc : DeletedAfterEmbed(d) /\ ~keep_lyrics /\ ~skip_lyrics

\* C5 as stated: a lyric file is deleted only after a successful commit that
\* embedded its lyrics, only with keep-lyrics false and only when the lyrics
\* directory equals the audio directory; with a lyrics directory different
\* from the audio directory no lyric file is ever deleted.
C5_Original ==
    /\ DeletionsJustified
    /\ lyrics_dir_arg \in {"LYR", "MISSING"} => LrcMissing = {} /\ deletedLrc = {}

\* C5 amended: a lyric file is deleted only after a successful commit that
\* embedded its lyrics, only with keep-lyrics false and only when the lyrics
\* directory in effect is the audio directory (none given, the audio directory
\* given, or a given directory that does not exist); with an existing lyrics
\* directory different from the audio directory no lyric file is ever deleted.
C5_DeleteOnlyAfterEmbed ==
    /\ DeletionsJustified
    /\ \A d \in deletedLrc : lyrics_dir = song_dir /\ d[1][1] = "SONG"
    /\ lyrics_dir_arg = "LYR" => LrcMissing = {} /\ deletedLrc = {}
C5_Witness ==
    /\ deletedLrc # {} /\ LrcMissing # {} /\ lyrics_dir_arg = "MISSING"
    /\ pc = "done"

\* C6: embed_lyrics_mp3 / embed_lyrics_flac is called at most once per scanned
\* audio file, and a call for one audio file never creates, deletes or changes
\* another scanned audio file.
C6_ModifiedAtMostOnce ==
    [][ /\ \A i, j \in 1..Len(calls') : calls'[i].audio = calls'[j].audio => i = j
        /\ Embedding =>
             \A f \in Range(audio_files) \ {audio_files[idx]} :
                 /\ (f \in DOMAIN songDir) = (f \in DOMAIN songDir')
                 /\ f \in DOMAIN songDir => songDir'[f] = songDir[f] ]_vars
C6_Witness ==
    /\ Len(audio_files) = 2 /\ Len(calls) = 2
    /\ calls[1].ok /\ calls[2].ok /\ pc = "done"

\* C8: between files the processed counter equals the number of successful
\* embed calls so far (right after a call it lacks only that call), it never
\* exceeds the number of scanned audio files, and a file whose lyric file
\* could not be deleted stays counted.
C8_CountIsSuccesses ==
    /\ pc \in {"loop", "done", "embed_mp3", "embed_flac"} =>
         processed_count = Cardinality(OkCalls)
    /\ pc = "returned" =>
         processed_count + (IF success THEN 1 ELSE 0) = Cardinality(OkCalls)
    /\ processed_count <= Len(audio_files)
    /\ \A f \in delFailed : \E i \in OkCalls : calls[i].audio = f
C8_Witness ==
    /\ pc = "done" /\ delFailed # {} /\ processed_count = 1 /\ Len(calls) = 2

\* C9: when ffmpeg is not on the path at the start of main, main returns on
\* that check: the audio directory is not listed, no embed call is made and
\* no file is created, changed or deleted.
C9_NoToolAborts ==
    toolAtStart = "absent" =>
        /\ pc = "done" /\ abort = "no_ffmpeg"
        /\ ~listed /\ calls = << >> /\ visited = << >>
        /\ songDir = songDir0 /\ lyrDir = lyrDir0 /\ ~tempDirExists
C9_Witness ==
    /\ toolAtStart = "absent" /\ pc = "done"
    /\ A_MP3 \in DOMAIN songDir /\ A_LRC \in DOMAIN songDir

\* C10: with skip-lyrics set and no cover directory, the run ends on a
\* configuration error before ffmpeg is probed, the audio directory listed
\* or an embed call made; no file is created, changed or deleted.
C10_NothingSelectedAborts ==
    (skip_lyrics /\ cover_dir = "None") =>
        /\ pc \in {"cli", "main", "done"}
        /\ pc = "done" =>
             abort \in {"nothing_to_embed", "cli_nothing_to_embed", "bad_dir"}
        /\ ~probed /\ ~listed /\ calls = << >> /\ visited = << >>
        /\ songDir = songDir0 /\ lyrDir = lyrDir0 /\ ~tempDirExists
C10_Witness ==
    /\ skip_lyrics /\ cover_dir = "None" /\ pc = "done"
    /\ abort = "nothing_to_embed" /\ A_MP3 \in DOMAIN songDir

\* C11: embed_lyrics_mp3 / embed_lyrics_flac returns True only if ffmpeg
\* exited with code 0 and the staged output file existed after it ran; and
\* whenever it has returned True, the audio path holds what the staged output
\* held and the staged output path no longer exists.
C11_SuccessContract ==
    /\ \A i \in 1..Len(calls) :
         calls[i].ok => calls[i].toolOK /\ calls[i].staged # NoFile
    /\ (pc = "returned" /\ success) =>
         /\ audio_files[idx] \in DOMAIN songDir
         /\ songDir[audio_files[idx]] = LastCall.staged
         /\ LastCall.fmt = "mp3" => Mp3OutputFile(audio_files[idx]) \notin DOMAIN songDir
         /\ LastCall.fmt = "flac" => audio_files[idx] \notin DOMAIN tempDir
C11_Witness ==
    /\ pc = "returned" /\ success /\ Len(calls) = 2
    /\ calls[1].ok /\ calls[1].fmt # calls[2].fmt
    /\ tempDirExists

Returned(fn) == frame.fn = fn /\ frame.done

\* the first index of names whose name satisfies Hit, 0 when there is none
FirstIndex(names, Hit(_)) ==
    IF \E i \in 1..Len(names) : Hit(names[i])
    THEN CHOOSE i \in 1..Len(names) :
             Hit(names[i]) /\ \A j \in 1..(i - 1) : ~Hit(names[j])
    ELSE 0

\* C12: for an audio file with basename B and an ordered list of lyric file
\* names, find_lyrics and find_lyrics_in_dir return the first name of the list,
\* in listing order, that starts with B as a literal prefix, and nothing when
\* no name starts with B.
C12_LyricMatcher ==
    /\ Returned("find_lyrics") =>
         LET B == splitext0(frame.args.song_name)
             names == frame.args.lyrics_files
             k == FirstIndex(names, LAMBDA n : startswith(n, B))
         IN frame.ret = IF k = 0 THEN NoPath ELSE names[k]
    /\ Returned("find_lyrics_in_dir") =>
         LET B == splitext0(frame.args.song_name)
             names == SelectSeq(frame.env, LAMBDA n : endswith(lower(n), EXT_LRC))
             k == FirstIndex(names, LAMBDA n : startswith(n, B))
         IN frame.ret = IF k = 0 THEN NoPath ELSE <<frame.args.lyrics_dir, names[k]>>
C12_Witness ==
    /\ Returned("find_lyrics")
    /\ frame.args.song_name = A_MP3
    /\ frame.args.lyrics_files = <<B_LRC, AB_LRC, A_LRC>>
    /\ frame.ret = AB_LRC

\* C13: for an audio file with basename B and the listing of the cover
\* directory restricted to the image extensions (case-insensitive),
\* find_cover_in_dir returns the first name in listing order whose basename
\* without extension equals B, is a prefix of B or has B as a prefix, and
\* nothing when there is no such name.
C13_CoverMatcher ==
    Returned("find_cover_in_dir") =>
        LET B == splitext0(frame.args.song_name)
            names == SelectSeq(frame.env, LAMBDA n :
                         \E e \in image_extensions : endswith(lower(n), e))
            k == FirstIndex(names, LAMBDA n :
                     \/ splitext0(n) = B
                     \/ startswith(B, splitext0(n))
                     \/ startswith(splitext0(n), B))
        IN frame.ret = IF k = 0 THEN NoPath ELSE <<frame.args.cover_dir, names[k]>>
C13_Witness ==
    /\ Returned("find_cover_in_dir")
    /\ frame.args.song_name = AB_FLAC
    /\ frame.args.cover_dir = "COV"
    /\ covDir = {A_PNG, AB_JPG, B_PNG, A_TXT}
    /\ frame.env[1] = B_PNG
    /\ frame.ret = <<"COV", AB_JPG>>

\* C14: check_gpu_support returns False whenever `ffmpeg -encoders` could not
\* be run (ffmpeg missing, any other exception) and whenever it exited with a
\* non-zero code, whatever it printed; it returns True only when the query
\* succeeded and its output contains 'nvenc', case-insensitively.
C14_ProbeFalseOnFailure ==
    Returned("check_gpu_support") =>
        frame.ret = (/\ ~frame.args.raises
                     /\ frame.args.returncode = 0
                     /\ contains(lower(frame.args.stdout), NVENC))

\* the output streams of the returned plan that come from the given input
StreamsFrom(input) ==
    LET out == OutputStreams(frame.ret.cmd, frame.args.audio_streams)
    IN {k \in 0..(Len(out) - 1) :
          Inputs(frame.ret.cmd)[out[k + 1].input + 1] = input}
Dispositions ==
    {Disposition(frame.ret.cmd, k) : k \in 0..3} \ {""}

\* C15: for MP3 and every combination of lyrics and cover other than neither,
\* accelerated or plain: the inputs are the audio, the lyrics iff present,
\* the cover iff present, in that order; 'lyrics' is the disposition of the
\* output stream that carries the lyrics input and 'attached_pic' that of the
\* output stream that carries the cover input (cover option index 2 with
\* lyrics, 1 without); every mapped stream is codec-copied; and there is no
\* lyrics disposition without lyrics, no attached_pic without a cover.
C15_Mp3Plan ==
    Returned("embed_lyrics_mp3") =>
        LET cmd == frame.ret.cmd
            lyrics == ~frame.args.skip_lyrics
            cover == frame.args.cover_ok
            out == OutputStreams(cmd, frame.args.audio_streams)
        IN /\ Inputs(cmd) = <<"AUDIO">>
                 \o (IF lyrics THEN <<"TEMP_LRC">> ELSE << >>)
                 \o (IF cover THEN <<"COVER">> ELSE << >>)
           /\ lyrics =>
                \A k \in 0..3 : (Disposition(cmd, k) = "lyrics") <=>
                                    (k \in StreamsFrom("TEMP_LRC"))
           /\ cover =>
                /\ \A k \in 0..3 : (Disposition(cmd, k) = "attached_pic") <=>
                                       (k \in StreamsFrom("COVER"))
                /\ Disposition(cmd, IF lyrics THEN 2 ELSE 1) = "attached_pic"
           /\ \A i \in 1..Len(out) : Copied(cmd, out[i].type)
           /\ ~lyrics => "lyrics" \notin Dispositions
           /\ ~cover => "attached_pic" \notin Dispositions

\* C16: for FLAC and every combination of lyrics and cover other than neither:
\* the scratch lyric file is never an input; the 'lyrics' metadata tag is set
\* iff lyrics are present; the cover is the second input, with the fixed
\* title and comment picture metadata, iff a cover is present; the output goes
\* to the staging subdirectory next to the source, never to the source path;
\* and the plan is the same with and without acceleration requested.
C16_FlacPlan ==
    Returned("embed_lyrics_flac") =>
        LET cmd == frame.ret.cmd
            lyrics == ~frame.args.skip_lyrics
            cover == frame.args.cover_ok
        IN /\ "TEMP_LRC" \notin Range(cmd)
           /\ Inputs(cmd) = <<"AUDIO">> \o (IF cover THEN <<"COVER">> ELSE << >>)
           /\ ArgsOf(cmd, "-metadata") = IF lyrics THEN <<"LYRICS_TAG">> ELSE << >>
           /\ ArgsOf(cmd, "-metadata:s:v") =
                IF cover THEN <<"title=\"Album cover\"", "comment=\"Cover (front)\"">>
                ELSE << >>
           /\ cmd[Len(cmd)] = "OUTPUT"
           /\ {i \in 1..Len(cmd) : cmd[i] = "OUTPUT"} = {Len(cmd)}
           /\ frame.ret.output_file = <<song_dir, "temp_lyrics_dir", frame.args.audio>>
           /\ frame.ret.output_file # <<song_dir, frame.args.audio>>
           /\ cmd = FlacPlan(frame.args.skip_lyrics, frame.args.cover_ok,
                             ~frame.args.use_gpu)
C16_Witness ==
    /\ Returned("embed_lyrics_flac")
    /\ frame.args.skip_lyrics /\ frame.args.cover_ok /\ frame.args.use_gpu
    /\ "COVER" \in Range(frame.ret.cmd)

DeletingRun == ~skip_lyrics /\ ~keep_lyrics /\ lyrics_dir = song_dir
\* successful calls, the first before the second, that embedded the same
\* (non-empty) lyric text
EmbeddedTwice ==
    {p \in OkCalls \X OkCalls :
        /\ p[1] < p[2]
        /\ CmdHasLyrics(calls[p[1]].cmd) /\ CmdHasLyrics(calls[p[2]].cmd)
        /\ calls[p[1]].text = calls[p[2]].text
        /\ calls[p[1]].text \notin {None, ""}}
\* the audio file in hand matched the list entry of a lyric file that main
\* deleted after an earlier audio file
StaleEntry ==
    /\ pc \in {"embed_mp3", "embed_flac", "returned"}
    /\ \E d \in deletedLrc : d[1] = full_lrc_path
\* such a file gets no lyric text, ffmpeg is not run for it and the call fails
StaleEntryHarmless ==
    /\ StaleEntry =>
         /\ lyrics_text = None
         /\ ~success
         /\ pc = "returned" => ~LastCall.ok /\ LastCall.cmd = << >>
    /\ abort # "uncaught"

VisitedInOrder ==
    /\ Len(visited) <= Len(audio_files)
    /\ \A i \in 1..Len(visited) : visited[i] = audio_files[i]
BatchComplete ==
    pc = "done" /\ reported /\ visited = audio_files

\* steps main still has to take, at most: three per audio file not yet done
Remaining ==
    CASE pc = "cli"      -> 3 * Cardinality(DOMAIN songDir0) + 4
      [] pc = "main"     -> 3 * Cardinality(DOMAIN songDir0) + 3
      [] pc = "loop"     -> 3 * (Len(audio_files) - idx + 1) + 1
      [] pc = "returned" -> 3 * (Len(audio_files) - idx) + 2
      [] pc = "done"     -> 0
      [] OTHER           -> 3 * (Len(audio_files) - idx) + 3

\* main is at a defined place of its loop
InLoop ==
    /\ pc = "loop" => idx \in 1..(Len(audio_files) + 1)
    /\ pc \in {"embed_mp3", "embed_flac", "returned"} => idx \in 1..Len(audio_files)

====
